---- MODULE Spec2Model ----
(***************************************************************************)
(* Model of easyrider.py (Easy Rider Bus Company): the field validator,    *)
(* the line topology classifier, the transfer stop deriver, the chronology *)
(* checker, the on-demand policy checker and the main run that chains      *)
(* them.                                                                   *)
(*                                                                         *)
(* A JSON value is a record [t |-> type tag, v |-> payload]; a Python str  *)
(* is a tuple of one-character strings, so that regular expressions and    *)
(* the lexicographic comparison of strings are computed, not assumed.      *)
(* A stop record (a Python dict) is a function from keys to values.        *)
(***************************************************************************)
EXTENDS Integers, Sequences, FiniteSets, TLC

\* Longest record collection explored by each specification.
MaxLenFields == 2
MaxLenTopo == 5
MaxLenAtime == 4
MaxLenOnDemand == 3
MaxLenMain == 4

VARIABLES
    db,                           \* the record collection (json.load)
    pc,                           \* position of the run
    i,                            \* index of the next record of the running scan
    out,                          \* lines printed so far
    status,                       \* "running", "exit0", "exit1"
    errors,                       \* check_db_fields: errors
    ret,                          \* check_db_fields: returned value
    bus_lines,                    \* mapping last returned by bus_lines_and_stops
    start_stops,                  \* arguments of check_on_demand
    transfer_stops,
    finish_stops,
    bus_last_stop_arrival_time,   \* check_atime
    bus_line_blacklist,           \* check_atime
    incorrect_on_demand           \* check_on_demand

vars == <<db, pc, i, out, status, errors, ret, bus_lines, start_stops,
          transfer_stops, finish_stops, bus_last_stop_arrival_time,
          bus_line_blacklist, incorrect_on_demand>>

----------------------------------------------------------------------------
(* Values and strings *)

IntV(n) == [t |-> "int", v |-> n]
StrV(s) == [t |-> "str", v |-> s]

isinstance_int(x) == x.t \in {"int", "bool"}
isinstance_str(x) == x.t = "str"

\* Characters in code point order: "0" is 48, "A" is 65, "a" is 97.
DigitChars == <<"0", "1", "2", "3", "4", "5", "6", "7", "8", "9", ":">>
UpperChars ==
    <<"A", "B", "C", "D", "E", "F", "G", "H", "I", "J", "K", "L", "M",
      "N", "O", "P", "Q", "R", "S", "T", "U", "V", "W", "X", "Y", "Z">>
LowerChars ==
    <<"a", "b", "c", "d", "e", "f", "g", "h", "i", "j", "k", "l", "m",
      "n", "o", "p", "q", "r", "s", "t", "u", "v", "w", "x", "y", "z">>

IndexOf(q, c) == CHOOSE k \in 1..Len(q) : q[k] = c
Has(q, c) == \E k \in 1..Len(q) : q[k] = c

\* ord(c), for the characters of the inputs.
Code(c) ==
    IF c = "\t" THEN 9
    ELSE IF c = "\n" THEN 10
    ELSE IF c = " " THEN 32
    ELSE IF Has(DigitChars, c) THEN 47 + IndexOf(DigitChars, c)
    ELSE IF Has(UpperChars, c) THEN 64 + IndexOf(UpperChars, c)
    ELSE 96 + IndexOf(LowerChars, c)

IsDigit(c) == Code(c) \in Code("0")..Code("9")
IsUpper(c) == Code(c) \in Code("A")..Code("Z")
IsSpace(c) == c \in {" ", "\t", "\n", "\r", "\f"}

\* Python's str <= str: lexicographic by code point.
RECURSIVE StrLeq(_, _)
StrLeq(a, b) ==
    IF a = <<>> THEN TRUE
    ELSE IF b = <<>> THEN FALSE
    ELSE IF Head(a) = Head(b) THEN StrLeq(Tail(a), Tail(b))
    ELSE Code(Head(a)) < Code(Head(b))

\* x <= y for the values check_atime compares.
ValueLeq(x, y) == StrLeq(x.v, y.v)

\* sorted(s) for a set of str values.
Sorted(s) ==
    CHOOSE q \in [1..Cardinality(s) -> s] :
        /\ \A a, b \in 1..Cardinality(s) : a < b => q[a] # q[b] /\ StrLeq(q[a].v, q[b].v)

----------------------------------------------------------------------------
(* Regular expressions of check_db_fields *)

\* "$" matches at the end of the string and before a newline that ends it.
DollarEnds(s) ==
    {s} \cup (IF Len(s) > 0 /\ s[Len(s)] = "\n" THEN {SubSeq(s, 1, Len(s) - 1)} ELSE {})

\* ([0-1]\d|2[0-3]):([0-5]\d|60)
FullATime(s) ==
    /\ Len(s) = 5
    /\ \/ s[1] \in {"0", "1"} /\ IsDigit(s[2])
       \/ s[1] = "2" /\ s[2] \in {"0", "1", "2", "3"}
    /\ s[3] = ":"
    /\ \/ s[4] \in {"0", "1", "2", "3", "4", "5"} /\ IsDigit(s[5])
       \/ s[4] = "6" /\ s[5] = "0"

a_time_template(s) == \E e \in DollarEnds(s) : FullATime(e)

\* [SOF]?
stop_type_template(s) == \E e \in DollarEnds(s) : e \in {<<>>, <<"S">>, <<"O">>, <<"F">>}

Suffixes ==
    { <<"R", "o", "a", "d">>,
      <<"A", "v", "e", "n", "u", "e">>,
      <<"B", "o", "u", "l", "e", "v", "a", "r", "d">>,
      <<"S", "t", "r", "e", "e", "t">> }

\* [A-Z].+\s(Road|Avenue|Boulevard|Street)
FullStopName(s) ==
    \E suf \in Suffixes :
        LET w == Len(s) - Len(suf) IN       \* position of the \s character
        /\ w >= 3
        /\ SubSeq(s, w + 1, Len(s)) = suf
        /\ IsSpace(s[w])
        /\ IsUpper(s[1])
        /\ \A k \in 2..(w - 1) : s[k] # "\n"

stop_name_template(s) == \E e \in DollarEnds(s) : FullStopName(e)

----------------------------------------------------------------------------
(* check_db_fields *)

KnownFields == {"bus_id", "stop_id", "stop_name", "next_stop", "stop_type", "a_time"}

\* db_fields_specification[key](x)
db_fields_specification(key, x) ==
    CASE key = "bus_id"    -> isinstance_int(x)
      [] key = "stop_id"   -> isinstance_int(x)
      [] key = "stop_name" -> isinstance_str(x) /\ stop_name_template(x.v)
      [] key = "next_stop" -> isinstance_int(x)
      [] key = "stop_type" -> isinstance_str(x) /\ stop_type_template(x.v)
      [] key = "a_time"    -> isinstance_str(x) /\ a_time_template(x.v)

\* The order in which the keys of a record are listed (entry.items()).
KeyOrder == <<"bus_id", "stop_id", "stop_name", "next_stop", "stop_type", "a_time", "note">>

Items(entry) == SelectSeq(KeyOrder, LAMBDA k : k \in DOMAIN entry)

EmptyDict == [k \in {} |-> 0]

\* errors.setdefault(key, 0)
SetDefault(d, key) == IF key \in DOMAIN d THEN d ELSE d @@ (key :> 0)

\* ScanItem with "errors[key] = 1" in place of "errors[key] += 1".
ScanItemSetsOne(errs, key, value) ==
    LET e1 == IF key \in KnownFields THEN SetDefault(errs, key) ELSE errs
    IN  IF key \in KnownFields /\ ~db_fields_specification(key, value)
        THEN [e1 EXCEPT ![key] = 1]
        ELSE e1

\* The body of "for key, value in entry.items()" for one item.
ScanItem(errs, key, value) ==
    LET e1 == IF key \in KnownFields THEN SetDefault(errs, key) ELSE errs
    IN  IF key \in KnownFields /\ ~db_fields_specification(key, value)
        THEN [e1 EXCEPT ![key] = @ + 1]
        ELSE e1

RECURSIVE ScanItems(_, _, _)
ScanItems(errs, entry, keys) ==
    IF keys = <<>> THEN errs
    ELSE ScanItems(ScanItem(errs, Head(keys), entry[Head(keys)]), entry, Tail(keys))

\* The lines printed by "for key, value in errors.items()".
RECURSIVE ErrorLines(_, _)
ErrorLines(errs, keys) ==
    IF keys = <<>> THEN <<>>
    ELSE (IF Head(keys) \in DOMAIN errs /\ errs[Head(keys)] > 0
          THEN <<[k |-> "spec_error", key |-> Head(keys), n |-> errs[Head(keys)]]>>
          ELSE <<>>) \o ErrorLines(errs, Tail(keys))

\* return not bool(errors)
FieldsResult(errs) == IF DOMAIN errs = {} THEN "True" ELSE "False"

\* One iteration of "for entry in db".
FieldsStep ==
    /\ pc = "fields"
    /\ i <= Len(db)
    /\ errors' = ScanItems(errors, db[i], Items(db[i]))
    /\ i' = i + 1
    /\ UNCHANGED <<db, pc, out, status, ret, bus_lines, start_stops, transfer_stops,
                   finish_stops, bus_last_stop_arrival_time, bus_line_blacklist,
                   incorrect_on_demand>>

\* The report and the return.
FieldsEnd ==
    /\ pc = "fields"
    /\ i > Len(db)
    /\ out' = out \o ErrorLines(errors, KeyOrder)
    /\ ret' = FieldsResult(errors)
    /\ pc' = "topo1"
    /\ i' = 1
    /\ UNCHANGED <<db, status, errors, bus_lines, start_stops, transfer_stops,
                   finish_stops, bus_last_stop_arrival_time, bus_line_blacklist,
                   incorrect_on_demand>>

----------------------------------------------------------------------------
(* bus_lines_and_stops *)

TypeS == StrV(<<"S">>)
TypeF == StrV(<<"F">>)
TypeO == StrV(<<"O">>)

\* The entry created for a bus_id seen for the first time.
NewLine ==
    [start_count |-> 0, final_count |-> 0, start_stop_names |-> {},
     final_stop_names |-> {}, other_stop_names |-> {}]

\* The dict bus_lines: its keys in insertion order, and its values.
NoLines == [order |-> <<>>, props |-> EmptyDict]

\* The body of "for entry in db" up to the test that breaks the loop.
Classify(bl, entry) ==
    LET b   == entry.bus_id
        bl1 == IF b \in DOMAIN bl.props THEN bl
               ELSE [order |-> Append(bl.order, b), props |-> bl.props @@ (b :> NewLine)]
        p   == bl1.props[b]
        p2  == IF entry.stop_type = TypeS
               THEN [p EXCEPT !.start_count = @ + 1,
                              !.start_stop_names = @ \cup {entry.stop_name}]
               ELSE IF entry.stop_type = TypeF
               THEN [p EXCEPT !.final_count = @ + 1,
                              !.final_stop_names = @ \cup {entry.stop_name}]
               ELSE [p EXCEPT !.other_stop_names = @ \cup {entry.stop_name}]
    IN  [bl1 EXCEPT !.props[b] = p2]

\* The condition of the break.
TooMany(p) == p.start_count > 1 \/ p.final_count > 1

\* The scan from record k on, with its early stop.
RECURSIVE ScanLines(_, _, _)
ScanLines(d, k, bl) ==
    IF k > Len(d) THEN bl
    ELSE IF TooMany(Classify(bl, d[k]).props[d[k].bus_id]) THEN Classify(bl, d[k])
    ELSE ScanLines(d, k + 1, Classify(bl, d[k]))

\* AssertOK with ">= 1" in place of "== 1".
AssertAtLeastOne(p) == p.start_count >= 1 /\ p.final_count >= 1

\* The assertion on one line.
AssertOK(p) == p.start_count = 1 /\ p.final_count = 1

\* The call: either exit(1) with the line of the message, or the mapping.
bus_lines_and_stops(d) ==
    LET bl  == ScanLines(d, 1, NoLines)
        bad == {k \in 1..Len(bl.order) : ~AssertOK(bl.props[bl.order[k]])}
    IN  IF bad # {}
        THEN [exited |-> TRUE,
              line |-> bl.order[CHOOSE k \in bad : \A m \in bad : k <= m]]
        ELSE [exited |-> FALSE, bus_lines |-> bl]

----------------------------------------------------------------------------
(* check_start_final_transfer_stops *)

\* itertools.combinations(range(1, n + 1), 2)
Combinations2(n) == {c \in (1..n) \X (1..n) : c[1] < c[2]}

\* bus_lines.values(), in insertion order.
Values(bl) == [k \in 1..Len(bl.order) |-> bl.props[bl.order[k]]]

\* AllStopsOf without the other_stop_names of the line.
AllStopsOfStartFinal(p) == p.start_stop_names \cup p.final_stop_names

\* The set appended to all_stops for one line.
AllStopsOf(p) == p.start_stop_names \cup p.final_stop_names \cup p.other_stop_names

\* The three sets computed from the mapping.
StopSets(bl) ==
    [exited |-> FALSE,
     bus_lines |-> bl,
     start_stops |-> UNION {Values(bl)[k].start_stop_names : k \in 1..Len(bl.order)},
     finish_stops |-> UNION {Values(bl)[k].final_stop_names : k \in 1..Len(bl.order)},
     transfer_stops |->
        UNION {AllStopsOf(Values(bl)[c[1]]) \cap AllStopsOf(Values(bl)[c[2]]) :
                  c \in Combinations2(Len(bl.order))}]

check_start_final_transfer_stops(d) ==
    IF bus_lines_and_stops(d).exited THEN bus_lines_and_stops(d)
    ELSE StopSets(bus_lines_and_stops(d).bus_lines)

\* print(...) and exit(1) of bus_lines_and_stops.
Fatal(r) ==
    /\ out' = Append(out, [k |-> "fatal", line |-> r.line])
    /\ status' = "exit1"
    /\ pc' = "exited"
    /\ UNCHANGED <<bus_lines, start_stops, transfer_stops, finish_stops>>

\* Line 157 of the main run: the call whose result is dropped.
Topo1 ==
    /\ pc = "topo1"
    /\ LET r == check_start_final_transfer_stops(db) IN
       IF r.exited THEN Fatal(r)
       ELSE /\ bus_lines' = r.bus_lines
            /\ pc' = "atime"
            /\ UNCHANGED <<out, status, start_stops, transfer_stops, finish_stops>>
    /\ UNCHANGED <<db, i, errors, ret, bus_last_stop_arrival_time, bus_line_blacklist,
                   incorrect_on_demand>>

\* Line 159 of the main run: the call whose result is handed to check_on_demand.
Topo2 ==
    /\ pc = "topo2"
    /\ LET r == check_start_final_transfer_stops(db) IN
       IF r.exited THEN Fatal(r)
       ELSE /\ bus_lines' = r.bus_lines
            /\ start_stops' = r.start_stops
            /\ transfer_stops' = r.transfer_stops
            /\ finish_stops' = r.finish_stops
            /\ pc' = "ondemand"
            /\ UNCHANGED <<out, status>>
    /\ UNCHANGED <<db, i, errors, ret, bus_last_stop_arrival_time, bus_line_blacklist,
                   incorrect_on_demand>>

----------------------------------------------------------------------------
(* check_atime *)

\* The locals and the header.
AtimeBegin ==
    /\ pc = "atime"
    /\ bus_last_stop_arrival_time' = EmptyDict
    /\ bus_line_blacklist' = {}
    /\ out' = Append(out, [k |-> "atime_header"])
    /\ i' = 1
    /\ pc' = "atime_loop"
    /\ UNCHANGED <<db, status, errors, ret, bus_lines, start_stops, transfer_stops,
                   finish_stops, incorrect_on_demand>>

\* InOrder with "<" in place of "<=".
InOrderStrict(last, entry) == ValueLeq(last, entry.a_time) /\ last # entry.a_time

\* The comparison of line 120.
InOrder(last, entry) == ValueLeq(last, entry.a_time)

\* AtimeStep without the test of the blacklist.
AtimeStepNoSkip ==
    /\ pc = "atime_loop"
    /\ i <= Len(db)
    /\ LET entry == db[i]
           b == entry.bus_id
       IN  IF b \notin DOMAIN bus_last_stop_arrival_time
           THEN /\ bus_last_stop_arrival_time' =
                       bus_last_stop_arrival_time @@ (b :> entry.a_time)
                /\ UNCHANGED <<bus_line_blacklist, out>>
           ELSE IF InOrder(bus_last_stop_arrival_time[b], entry)
           THEN /\ bus_last_stop_arrival_time' =
                       [bus_last_stop_arrival_time EXCEPT ![b] = entry.a_time]
                /\ UNCHANGED <<bus_line_blacklist, out>>
           ELSE /\ bus_line_blacklist' = bus_line_blacklist \cup {b}
                /\ out' = Append(out, [k |-> "wrong_time", line |-> b,
                                       stop |-> entry.stop_name])
                /\ UNCHANGED bus_last_stop_arrival_time
    /\ i' = i + 1
    /\ UNCHANGED <<db, pc, status, errors, ret, bus_lines, start_stops, transfer_stops,
                   finish_stops, incorrect_on_demand>>

\* One iteration of "for entry in db".
AtimeStep ==
    /\ pc = "atime_loop"
    /\ i <= Len(db)
    /\ LET entry == db[i]
           b == entry.bus_id
       IN  IF b \in bus_line_blacklist
           THEN UNCHANGED <<bus_last_stop_arrival_time, bus_line_blacklist, out>>
           ELSE IF b \notin DOMAIN bus_last_stop_arrival_time
           THEN /\ bus_last_stop_arrival_time' =
                       bus_last_stop_arrival_time @@ (b :> entry.a_time)
                /\ UNCHANGED <<bus_line_blacklist, out>>
           ELSE IF InOrder(bus_last_stop_arrival_time[b], entry)
           THEN /\ bus_last_stop_arrival_time' =
                       [bus_last_stop_arrival_time EXCEPT ![b] = entry.a_time]
                /\ UNCHANGED <<bus_line_blacklist, out>>
           ELSE /\ bus_line_blacklist' = bus_line_blacklist \cup {b}
                /\ out' = Append(out, [k |-> "wrong_time", line |-> b,
                                       stop |-> entry.stop_name])
                /\ UNCHANGED bus_last_stop_arrival_time
    /\ i' = i + 1
    /\ UNCHANGED <<db, pc, status, errors, ret, bus_lines, start_stops, transfer_stops,
                   finish_stops, incorrect_on_demand>>

\* AtimeEnd without the test "if not bus_line_blacklist".
AtimeEndAlwaysOK ==
    /\ pc = "atime_loop"
    /\ i > Len(db)
    /\ out' = Append(out, [k |-> "OK"])
    /\ pc' = "topo2"
    /\ i' = 1
    /\ UNCHANGED <<db, status, errors, ret, bus_lines, start_stops, transfer_stops,
                   finish_stops, bus_last_stop_arrival_time, bus_line_blacklist,
                   incorrect_on_demand>>

\* "OK" when no line was blacklisted, and the return.
AtimeEnd ==
    /\ pc = "atime_loop"
    /\ i > Len(db)
    /\ out' = IF bus_line_blacklist = {} THEN Append(out, [k |-> "OK"]) ELSE out
    /\ pc' = "topo2"
    /\ i' = 1
    /\ UNCHANGED <<db, status, errors, ret, bus_lines, start_stops, transfer_stops,
                   finish_stops, bus_last_stop_arrival_time, bus_line_blacklist,
                   incorrect_on_demand>>

----------------------------------------------------------------------------
(* check_on_demand *)

\* The header and the local.
OnDemandBegin ==
    /\ pc = "ondemand"
    /\ out' = Append(out, [k |-> "ondemand_header"])
    /\ incorrect_on_demand' = {}
    /\ i' = 1
    /\ pc' = "ondemand_loop"
    /\ UNCHANGED <<db, status, errors, ret, bus_lines, start_stops, transfer_stops,
                   finish_stops, bus_last_stop_arrival_time, bus_line_blacklist>>

\* IsIncorrect without the transfer stops.
IsIncorrectNoTransfer(entry, starts, transfers, finishes) ==
    entry.stop_type = TypeO /\ entry.stop_name \in (starts \cup finishes)

\* The condition of line 142.
IsIncorrect(entry, starts, transfers, finishes) ==
    entry.stop_type = TypeO /\ entry.stop_name \in (starts \cup transfers \cup finishes)

\* OnDemandStep with the report printed inside the loop.
OnDemandStepPrints ==
    /\ pc = "ondemand_loop"
    /\ i <= Len(db)
    /\ IF IsIncorrect(db[i], start_stops, transfer_stops, finish_stops)
       THEN /\ incorrect_on_demand' = incorrect_on_demand \cup {db[i].stop_name}
            /\ out' = Append(out, [k |-> "wrong_stop_type", names |-> <<db[i].stop_name>>])
       ELSE UNCHANGED <<incorrect_on_demand, out>>
    /\ i' = i + 1
    /\ UNCHANGED <<db, pc, status, errors, ret, bus_lines, start_stops,
                   transfer_stops, finish_stops, bus_last_stop_arrival_time,
                   bus_line_blacklist>>

\* One iteration of "for entry in db".
OnDemandStep ==
    /\ pc = "ondemand_loop"
    /\ i <= Len(db)
    /\ incorrect_on_demand' =
          IF IsIncorrect(db[i], start_stops, transfer_stops, finish_stops)
          THEN incorrect_on_demand \cup {db[i].stop_name}
          ELSE incorrect_on_demand
    /\ i' = i + 1
    /\ UNCHANGED <<db, pc, out, status, errors, ret, bus_lines, start_stops,
                   transfer_stops, finish_stops, bus_last_stop_arrival_time,
                   bus_line_blacklist>>

\* The report, the return, and the end of the main run.
OnDemandEnd ==
    /\ pc = "ondemand_loop"
    /\ i > Len(db)
    /\ out' = IF incorrect_on_demand # {}
              THEN Append(out, [k |-> "wrong_stop_type",
                                names |-> Sorted(incorrect_on_demand)])
              ELSE Append(out, [k |-> "OK"])
    /\ pc' = "done"
    /\ status' = "exit0"
    /\ UNCHANGED <<db, i, errors, ret, bus_lines, start_stops, transfer_stops,
                   finish_stops, bus_last_stop_arrival_time, bus_line_blacklist,
                   incorrect_on_demand>>

----------------------------------------------------------------------------
(* Inputs *)

ElmRoad == <<"E", "l", "m", " ", "R", "o", "a", "d">>
elmRoad == <<"e", "l", "m", " ", "R", "o", "a", "d">>
ElmLane == <<"E", "l", "m", " ", "L", "a", "n", "e">>
T0800 == <<"0", "8", ":", "0", "0">>
T0805 == <<"0", "8", ":", "0", "5">>
T0810 == <<"0", "8", ":", "1", "0">>
T2360 == <<"2", "3", ":", "6", "0">>
T2400 == <<"2", "4", ":", "0", "0">>

\* Records for the field validator: valid and invalid formats, wrong
\* primitive types, and an unknown key.
FieldRecords ==
    LET base ==
            { [bus_id |-> IntV(1), stop_id |-> sid, stop_name |-> StrV(nm),
               next_stop |-> IntV(0), stop_type |-> StrV(<<"S">>), a_time |-> at] :
                sid \in {IntV(1), StrV(<<"1">>)},
                nm \in {ElmRoad, elmRoad, ElmLane},
                at \in {StrV(T2360), StrV(T2400), IntV(800)} }
    IN  base \cup {r @@ ("note" :> StrV(<<"x">>)) : r \in base}

\* A record whose six fields have the types of a stop record.
StopRecord(b, nm, ty, at) ==
    [bus_id |-> IntV(b), stop_id |-> IntV(1), stop_name |-> StrV(nm),
     next_stop |-> IntV(0), stop_type |-> StrV(ty), a_time |-> StrV(at)]

BusIds == {1, 2}
StopNames == {<<"X">>, <<"Y">>}

\* Collections of at most n records drawn from R.
UpTo(d, R, n) == \E m \in 0..n : d \in [1..m -> R]

\* Bus ids are only compared for equality: the first record is of line 1.
FirstLineIsOne(d) == Len(d) > 0 => d[1].bus_id = IntV(1)

\* Records for the topology and the transfer stops.
TopoRecords ==
    {StopRecord(b, nm, ty, T0800) :
        b \in BusIds, nm \in StopNames, ty \in {<<"S">>, <<"F">>, <<"O">>}}

\* Records for the chronology check.
AtimeRecords ==
    {StopRecord(b, nm, <<>>, at) :
        b \in BusIds, nm \in StopNames, at \in {T0800, T0805, T0810}}

\* Records for the on-demand check.
OnDemandRecords ==
    {StopRecord(1, nm, ty, T0800) : nm \in StopNames, ty \in {<<"O">>, <<"S">>, <<>>}}

\* Records for the main run.
MainRecords ==
    {StopRecord(b, ElmRoad, ty, at) :
        b \in BusIds, ty \in {<<"S">>, <<"F">>, <<"O">>}, at \in {T0800, T2400}}

InitLocals ==
    /\ i = 1
    /\ out = <<>>
    /\ status = "running"
    /\ errors = EmptyDict
    /\ ret = "unset"
    /\ bus_lines = NoLines
    /\ start_stops = {}
    /\ transfer_stops = {}
    /\ finish_stops = {}
    /\ bus_last_stop_arrival_time = EmptyDict
    /\ bus_line_blacklist = {}
    /\ incorrect_on_demand = {}

\* check_db_fields called on a record collection.
InitFields ==
    /\ UpTo(db, FieldRecords, MaxLenFields)
    /\ pc = "fields"
    /\ InitLocals

NextFields == FieldsStep \/ FieldsEnd

SpecFields == InitFields /\ [][NextFields]_vars

\* check_start_final_transfer_stops called on a record collection.
InitTopo ==
    /\ UpTo(db, TopoRecords, MaxLenTopo)
    /\ FirstLineIsOne(db)
    /\ pc = "topo2"
    /\ InitLocals

NextTopo == Topo2

SpecTopo == InitTopo /\ [][NextTopo]_vars

\* check_atime called on a record collection.
InitAtime ==
    /\ UpTo(db, AtimeRecords, MaxLenAtime)
    /\ pc = "atime"
    /\ InitLocals

NextAtime == AtimeBegin \/ AtimeStep \/ AtimeEnd

SpecAtime == InitAtime /\ [][NextAtime]_vars

\* check_on_demand called on a record collection and three sets of names.
InitOnDemand ==
    /\ UpTo(db, OnDemandRecords, MaxLenOnDemand)
    /\ pc = "ondemand"
    /\ i = 1
    /\ out = <<>>
    /\ status = "running"
    /\ errors = EmptyDict
    /\ ret = "unset"
    /\ bus_lines = NoLines
    /\ start_stops \in SUBSET {StrV(nm) : nm \in StopNames}
    /\ transfer_stops \in SUBSET {StrV(nm) : nm \in StopNames}
    /\ finish_stops \in SUBSET {StrV(nm) : nm \in StopNames}
    /\ bus_last_stop_arrival_time = EmptyDict
    /\ bus_line_blacklist = {}
    /\ incorrect_on_demand = {}

NextOnDemand == OnDemandBegin \/ OnDemandStep \/ OnDemandEnd

SpecOnDemand == InitOnDemand /\ [][NextOnDemand]_vars

\* The main run, lines 151 to 159.
Init ==
    /\ UpTo(db, MainRecords, MaxLenMain)
    /\ pc = "fields"
    /\ InitLocals

Next ==
    \/ FieldsStep \/ FieldsEnd
    \/ Topo1
    \/ AtimeBegin \/ AtimeStep \/ AtimeEnd
    \/ Topo2
    \/ OnDemandBegin \/ OnDemandStep \/ OnDemandEnd

Spec == Init /\ [][Next]_vars

----------------------------------------------------------------------------
(* Properties of check_db_fields (under SpecFields) *)

\* check_db_fields has returned.
FieldsReturned == pc = "topo1"

\* Number of records among the first n whose value for key fails its predicate.
FailCount(d, n, key) ==
    Cardinality({m \in 1..n : ~db_fields_specification(key, d[m][key])})

\* Number of diagnostic lines printed for key.
ErrorLineCount(key) ==
    Cardinality({j \in 1..Len(out) : out[j].k = "spec_error" /\ out[j].key = key})

\* C1: check_db_fields returns true if and only if every known field of
\* every record satisfies its predicate (every failure count is zero).
C1_TrueIffNoFailure ==
    FieldsReturned =>
        (ret = "True" <=> \A key \in KnownFields : FailCount(db, Len(db), key) = 0)

\* The count kept for key after n records: the number of failures, where a
\* field no record has carried has no count and no failure.
CountIs(key, n) ==
    IF key \in DOMAIN errors THEN errors[key] = FailCount(db, n, key)
    ELSE FailCount(db, n, key) = 0

\* C10: after any number of scanned records the count kept for each known
\* field is the number of scanned records that fail that field's predicate,
\* unknown keys create no count, and the report has exactly one line for each
\* field with a nonzero count, carrying that count, and none for the others.
C10_CountsAndDiagnostics ==
    /\ DOMAIN errors \subseteq KnownFields
    /\ pc = "fields" => \A key \in KnownFields : CountIs(key, i - 1)
    /\ pc = "fields" => out = <<>>
    /\ FieldsReturned =>
          /\ \A key \in KnownFields : CountIs(key, Len(db))
          /\ \A j \in 1..Len(out) :
                /\ out[j].k = "spec_error"
                /\ out[j].key \in KnownFields
                /\ out[j].n = FailCount(db, Len(db), out[j].key)
          /\ \A key \in KnownFields :
                ErrorLineCount(key) = IF FailCount(db, Len(db), key) > 0 THEN 1 ELSE 0

\* Two records fail a_time (one by its type, one by its format), none fails
\* bus_id, a record carries an unknown key, and the report is printed.
C10_Witness ==
    /\ FieldsReturned
    /\ Len(db) = 2
    /\ errors["a_time"] = 2
    /\ db[1].a_time.t = "int"
    /\ db[2].a_time.t = "str"
    /\ errors["bus_id"] = 0
    /\ "note" \in DOMAIN db[1]
    /\ ErrorLineCount("a_time") = 1

----------------------------------------------------------------------------
(* Properties of bus_lines_and_stops and check_start_final_transfer_stops
   (under SpecTopo) *)

\* The bus_ids of the dataset.
LinesOf(d) == {d[m].bus_id : m \in 1..Len(d)}

\* Number of records of line b with stop_type ty.
CountType(d, b, ty) ==
    Cardinality({m \in 1..Len(d) : d[m].bus_id = b /\ d[m].stop_type = ty})

\* Line b has exactly one start and exactly one final record in the dataset.
LineHolds(d, b) == CountType(d, b, TypeS) = 1 /\ CountType(d, b, TypeF) = 1

TopologyHolds(d) == \A b \in LinesOf(d) : LineHolds(d, b)

\* The call of the topology classifier is over.
TopoOver == pc \in {"ondemand", "exited"}

\* C2: bus_lines_and_stops returns normally if and only if every bus_id of the
\* whole dataset has exactly one "S" and exactly one "F" record, and exits with
\* status 1 and the fatal message otherwise; the mapping returned has a key for
\* every bus_id of the dataset, with both counts equal to 1.
C2_ReturnsIffTopologyHolds ==
    TopoOver =>
        /\ pc = "ondemand" <=> TopologyHolds(db)
        /\ pc = "exited" => status = "exit1" /\ out[Len(out)].k = "fatal"
        /\ pc = "ondemand" =>
              /\ status = "running"
              /\ out = <<>>
              /\ DOMAIN bus_lines.props = LinesOf(db)
              /\ {bus_lines.order[m] : m \in 1..Len(bus_lines.order)} = LinesOf(db)
              /\ \A b \in LinesOf(db) :
                    /\ bus_lines.props[b].start_count = 1
                    /\ bus_lines.props[b].final_count = 1

\* A normal return on five records of two interleaved lines.
C2_Witness ==
    /\ pc = "ondemand"
    /\ Len(db) = 5
    /\ Cardinality(LinesOf(db)) = 2
    /\ db[1].bus_id # db[2].bus_id
    /\ db[2].bus_id # db[3].bus_id

\* C3: when the dataset has a line with two "S" records and no "F" record,
\* the run exits with status 1 and the fatal message names a line that breaks
\* the exactly-one-start, exactly-one-final rule in the full dataset.
C3_FatalNamesViolatingLine ==
    (TopoOver /\ \E b \in LinesOf(db) :
                    CountType(db, b, TypeS) = 2 /\ CountType(db, b, TypeF) = 0) =>
        /\ status = "exit1"
        /\ out[Len(out)].k = "fatal"
        /\ ~LineHolds(db, out[Len(out)].line)

\* The stop names on the records of line b.
NamesOn(d, b) == {d[m].stop_name : m \in {m \in 1..Len(d) : d[m].bus_id = b}}

\* The stop names on the records of type ty.
NamesOfType(d, ty) == {d[m].stop_name : m \in {m \in 1..Len(d) : d[m].stop_type = ty}}

\* The stop names on records of at least two distinct bus_ids.
SharedNames(d) ==
    {d[m].stop_name : m \in
        {m \in 1..Len(d) : \E b, c \in LinesOf(d) :
            b # c /\ d[m].stop_name \in NamesOn(d, b) \cap NamesOn(d, c)}}

\* C4: when check_start_final_transfer_stops returns, transfer_stops is the set
\* of names on records (of any stop_type) of at least two distinct bus_ids,
\* start_stops the set of names of "S" records and finish_stops the set of
\* names of "F" records.
C4_StopSets ==
    pc = "ondemand" =>
        /\ transfer_stops = SharedNames(db)
        /\ start_stops = NamesOfType(db, TypeS)
        /\ finish_stops = NamesOfType(db, TypeF)

\* A name that is an on-demand stop of one line and a start stop of another is
\* a transfer stop, and another name is not.
C4_Witness ==
    /\ pc = "ondemand"
    /\ \E m, n \in 1..Len(db) :
          /\ db[m].stop_type = TypeO
          /\ db[n].stop_type = TypeS
          /\ db[m].stop_name = db[n].stop_name
          /\ db[m].bus_id # db[n].bus_id
          /\ db[m].stop_name \in transfer_stops
    /\ \E m \in 1..Len(db) : db[m].stop_name \notin transfer_stops

----------------------------------------------------------------------------
(* Properties of check_on_demand (under SpecOnDemand) *)

\* The names of the "O" records that are in one of the three sets.
OnDemandOffenders(d) ==
    {d[m].stop_name : m \in
        {m \in 1..Len(d) :
            /\ d[m].stop_type = TypeO
            /\ \/ d[m].stop_name \in start_stops
               \/ d[m].stop_name \in transfer_stops
               \/ d[m].stop_name \in finish_stops}}

\* q lists the elements of s once each, in ascending order.
IsSortedListOf(q, s) ==
    /\ Len(q) = Cardinality(s)
    /\ {q[m] : m \in 1..Len(q)} = s
    /\ \A m \in 1..(Len(q) - 1) : StrLeq(q[m].v, q[m + 1].v)

\* C6: the set reported by check_on_demand is the set of names of "O" records
\* that are in start_stops, transfer_stops or finish_stops, printed sorted, and
\* "OK" is printed if and only if that set is empty.
C6_ReportedSet ==
    pc = "done" =>
        /\ incorrect_on_demand = OnDemandOffenders(db)
        /\ Len(out) = 2
        /\ out[1].k = "ondemand_header"
        /\ out[2].k = "OK" <=> OnDemandOffenders(db) = {}
        /\ out[2].k # "OK" =>
              /\ out[2].k = "wrong_stop_type"
              /\ IsSortedListOf(out[2].names, OnDemandOffenders(db))

\* An on-demand stop that is only a transfer stop is reported, and an
\* on-demand stop in none of the three sets is not.
C6_Witness ==
    /\ pc = "done"
    /\ out[2].k = "wrong_stop_type"
    /\ \E m, n \in 1..Len(db) :
          /\ db[m].stop_type = TypeO
          /\ db[m].stop_name \in transfer_stops
          /\ db[m].stop_name \notin start_stops \cup finish_stops
          /\ db[m].stop_name \in incorrect_on_demand
          /\ db[n].stop_type = TypeO
          /\ db[n].stop_name \notin start_stops \cup transfer_stops \cup finish_stops
          /\ db[n].stop_name \notin incorrect_on_demand

----------------------------------------------------------------------------
(* Properties of check_atime (under SpecAtime) *)

\* a < b for strings.
StrLess(a, b) == StrLeq(a, b) /\ a # b

\* The values a bus_id takes in the inputs.
LineIds == {IntV(b) : b \in BusIds}

\* The records of line b, in input order.
OwnRecords(d, b) == SelectSeq(d, LAMBDA e : e.bus_id = b)

\* A record of q is strictly earlier than the record just before it.
HasDescent(q) == \E m \in 2..Len(q) : StrLess(q[m].a_time.v, q[m - 1].a_time.v)

\* Number of records check_atime has scanned.
AtimeScanned ==
    IF pc = "atime_loop" THEN i - 1 ELSE IF pc = "topo2" THEN Len(db) ELSE 0

\* C5: a line is blacklisted if and only if its own records, in input order,
\* hold one whose time is strictly less than the time of the line's record
\* just before it: the verdict is a function of the line's own records, for
\* every content and interleaving of the other line's records.
C5_VerdictIsLocal ==
    bus_line_blacklist =
        {b \in LineIds : HasDescent(OwnRecords(SubSeq(db, 1, AtimeScanned), b))}

\* Two interleaved lines of two records each: line 1 is blacklisted, and line
\* 2, whose times repeat, is not.
C5_Witness ==
    /\ pc = "topo2"
    /\ Len(db) = 4
    /\ db[1].bus_id = IntV(1) /\ db[2].bus_id = IntV(2)
    /\ db[3].bus_id = IntV(1) /\ db[4].bus_id = IntV(2)
    /\ db[2].a_time = db[4].a_time
    /\ bus_line_blacklist = {IntV(1)}

\* The positions, among the first n records, of the records of line b that
\* are strictly earlier than the record of line b just before them.
Descents(d, b, n) ==
    {m \in 1..n :
        /\ d[m].bus_id = b
        /\ \E p \in 1..(m - 1) :
              /\ d[p].bus_id = b
              /\ \A r \in (p + 1)..(m - 1) : d[r].bus_id # b
              /\ StrLess(d[m].a_time.v, d[p].a_time.v)}

Least(s) == CHOOSE m \in s : \A n \in s : m <= n

\* The positions in out of the violation lines of line b.
ViolationLines(b) == {j \in 1..Len(out) : out[j].k = "wrong_time" /\ out[j].line = b}

C9_State ==
    /\ \A b \in LineIds :
          /\ Cardinality(ViolationLines(b)) <= 1
          /\ ViolationLines(b) # {} <=> Descents(db, b, AtimeScanned) # {}
          /\ ViolationLines(b) # {} <=> b \in bus_line_blacklist
          /\ \A j \in ViolationLines(b) :
                out[j].stop = db[Least(Descents(db, b, AtimeScanned))].stop_name
    /\ pc = "atime_loop" => \A j \in 1..Len(out) : out[j].k # "OK"
    /\ pc = "topo2" => ((\E j \in 1..Len(out) : out[j].k = "OK") <=> bus_line_blacklist = {})

C9_Step ==
    \A b \in bus_line_blacklist :
        /\ b \in bus_line_blacklist'
        /\ bus_last_stop_arrival_time'[b] = bus_last_stop_arrival_time[b]

\* C9: at most one violation line is printed per bus_id, naming the stop of
\* the line's first record that is strictly earlier than the line's record
\* before it; a blacklisted line stays blacklisted and its last recorded time
\* no longer changes; "OK" is printed at the end if and only if the blacklist
\* is empty.
C9_OneViolationPerLine == [](C9_State) /\ [][C9_Step]_vars

\* Line 1 with times 08:00, 08:10, 08:05, 08:00: two records are out of
\* order, one violation line is printed, for the third record.
C9_Witness ==
    /\ pc = "topo2"
    /\ Len(db) = 4
    /\ \A m \in 1..4 : db[m].bus_id = IntV(1)
    /\ db[1].a_time.v = T0800 /\ db[2].a_time.v = T0810
    /\ db[3].a_time.v = T0805 /\ db[4].a_time.v = T0800
    /\ db[3].stop_name # db[4].stop_name
    /\ Len(out) = 2
    /\ out[2].stop = db[3].stop_name
    /\ bus_last_stop_arrival_time[IntV(1)].v = T0810

----------------------------------------------------------------------------
(* Properties of the main run (under Spec) *)

\* The order of the output: field diagnostics ("fields"), then either the
\* fatal message ("fatal") or the chronology block, which is the header
\* ("atime") followed by violation lines ("violations") or by "OK"
\* ("atime_ok"), then the on-demand block, which is the header ("ondemand")
\* followed by the list or "OK" ("ondemand_end").
Follows(q, kind) ==
    CASE q = "fields" /\ kind = "spec_error" -> "fields"
      [] q = "fields" /\ kind = "fatal" -> "fatal"
      [] q = "fields" /\ kind = "atime_header" -> "atime"
      [] q \in {"atime", "violations"} /\ kind = "wrong_time" -> "violations"
      [] q = "atime" /\ kind = "OK" -> "atime_ok"
      [] q \in {"violations", "atime_ok"} /\ kind = "ondemand_header" -> "ondemand"
      [] q = "ondemand" /\ kind \in {"wrong_stop_type", "OK"} -> "ondemand_end"
      [] OTHER -> "disorder"

RECURSIVE OutputPhase(_, _)
OutputPhase(q, lines) ==
    IF lines = <<>> THEN q
    ELSE OutputPhase(Follows(q, Head(lines).k), Tail(lines))

RunOver == pc \in {"done", "exited"}

\* C7: the output is the field diagnostics, then the chronology block, then
\* the on-demand block; the run ends with status 0 after the on-demand block
\* unless the topology rule is broken, and then it exits with status 1 on the
\* fatal message before either header; nothing else stops the run, and the
\* second topology computation never aborts.
C7_OutputOrderAndExit ==
    /\ OutputPhase("fields", out) # "disorder"
    /\ status = "exit0" <=> pc = "done"
    /\ status = "exit1" <=> pc = "exited"
    /\ pc = "done" => OutputPhase("fields", out) = "ondemand_end" /\ TopologyHolds(db)
    /\ pc = "exited" => OutputPhase("fields", out) = "fatal" /\ ~TopologyHolds(db)
    /\ ~RunOver =>
          /\ status = "running"
          /\ pc \in {"fields", "topo1", "atime", "atime_loop", "topo2", "ondemand",
                     "ondemand_loop"}
    /\ pc \notin {"fields", "topo1", "exited"} => TopologyHolds(db)

\* A run that ends with status 0 after a field diagnostic and a violation line.
C7_Witness ==
    /\ pc = "done"
    /\ status = "exit0"
    /\ \E j \in 1..Len(out) : out[j].k = "spec_error"
    /\ \E j \in 1..Len(out) : out[j].k = "wrong_time"
    /\ out[Len(out)].k = "wrong_stop_type"

\* A check is scanning and records remain.
Scanning(at) == pc = at /\ i <= Len(db)

\* C8 as stated: in check_db_fields, check_atime and check_on_demand no
\* finding is printed while records remain to be scanned by that check.
C8_NoFindingMidScan ==
    /\ Scanning("fields") => \A j \in 1..Len(out) : out[j].k # "spec_error"
    /\ Scanning("atime_loop") => \A j \in 1..Len(out) : out[j].k \notin {"wrong_time", "OK"}
    /\ Scanning("ondemand_loop") => out[Len(out)].k = "ondemand_header"

\* C8 as amended: in check_db_fields and check_on_demand no finding is printed
\* while records remain to be scanned; in check_atime a violation line is
\* printed as soon as its record is scanned (the lines printed are those of
\* the lines blacklisted so far), and only "OK" waits for the end of the scan.
C8_FindingsAtEndExceptViolations ==
    /\ Scanning("fields") => \A j \in 1..Len(out) : out[j].k # "spec_error"
    /\ Scanning("ondemand_loop") => out[Len(out)].k = "ondemand_header"
    /\ Scanning("atime_loop") =>
          /\ \A j \in 1..Len(out) : out[j].k # "OK"
          /\ Cardinality({j \in 1..Len(out) : out[j].k = "wrong_time"})
                = Cardinality(bus_line_blacklist)
          /\ \A b \in LineIds :
                b \in bus_line_blacklist <=> HasDescent(OwnRecords(SubSeq(db, 1, i - 1), b))

\* check_atime has printed a violation line and has records left to scan.
C8_Witness ==
    /\ Scanning("atime_loop")
    /\ out[Len(out)].k = "wrong_time"
    /\ \E j \in 1..Len(out) : out[j].k = "spec_error"

====
